---- MODULE Spec2Model ----
(***************************************************************************)
(* A model of tools/progress-listener.py: the agent lineage tracker        *)
(* (AgentTracker), the duration/timestamp formatters, the event renderer   *)
(* (format_event) and the receive loop (listen_progress).                  *)
(*                                                                         *)
(* Strings the program builds are modelled as sequences of tokens (each    *)
(* token a piece of literal text, a digit or a space), so that a rendered  *)
(* string has a length and a content that the checks can inspect.          *)
(***************************************************************************)
EXTENDS Integers, Sequences, FiniteSets, TLC

(***************************************************************************)
(* Bounds of the model.                                                    *)
(***************************************************************************)
\* Number of AgentTracker.start_agent calls explored per run of SpecTracker.
MaxStarts == 3

\* Largest duration, in milliseconds, handed to format_duration in SpecDuration.
MaxDurationMs == 130000

\* Number of start_agent calls behind the tracker states format_event is applied
\* to in SpecRender.
MaxPriorStarts == 2

\* Number of messages the listener receives per run of Spec.
MaxMessages == 3

\* Number of fields of the events of unrecognised type rendered in SpecFields.
MaxDumpFields == 4

\* Python's None, and the truth value Python gives to an id ("if parent_id").
None == "None"

Truthy(x) == x # None /\ x # ""

\* Agent ids the event source may send.  The only call site of start_agent
\* (format_event, line 127) registers an id only when it is truthy.
AgentIds == {"a1", "a2", "a3"}

\* An id that no run ever registers, for queries about unknown agents.
Ghost == "ghost"

\* parent_id values start_agent is called with: None (no parent) or an agent id,
\* registered or not at the time of the call.
ParentIds == AgentIds \cup {None}

\* Ids a query may be about.
QueryIds == AgentIds \cup {Ghost, None, ""}

\* Readings of time.time().  The wall clock is not monotonic: a reading may be
\* equal to, or lower than, an earlier one.
ClockReadings == {0, 1, 2}

VARIABLES
    agents,           \* AgentTracker.agents: agentId -> {parentId, startTime, depth}
    agent_keys,       \* insertion order of the keys of AgentTracker.agents
    parent_children,  \* AgentTracker.parent_children: parentId -> [childIds]
    starts,           \* history: the start_agent calls made, as <<agent_id, parent_id, reading>>
    pc,               \* control state of the driver
    arg,              \* argument of the formatter call under way (format_duration, format_event)
    ret,              \* what that call returned
    message,          \* listen_progress: the message websocket.recv() returned
    received,         \* history: the messages received, in order
    calls,            \* history: the format_event calls made, as <<event, reading 118, reading 53>>
    stdout,           \* what was printed to sys.stdout, one entry per print
    flushed,          \* number of entries of stdout written out by sys.stdout.flush()
    stderr,           \* what was printed to sys.stderr
    exit_status       \* None while running, then the status the process ends with

vars == <<agents, agent_keys, parent_children, starts, pc, arg, ret,
          message, received, calls, stdout, flushed, stderr, exit_status>>

\* The variables of listen_progress.
listener == <<message, received, calls, stdout, flushed, stderr, exit_status>>

tracker == <<agents, agent_keys, parent_children>>

(***************************************************************************)
(* Decimal rendering of a non-negative integer, as f"{n}" gives it.        *)
(***************************************************************************)
DigitChar == <<"0", "1", "2", "3", "4", "5", "6", "7", "8", "9">>

RECURSIVE IntToStr(_)
IntToStr(n) ==
    IF n < 10 THEN <<DigitChar[n + 1]>>
    ELSE IntToStr(n \div 10) \o <<DigitChar[(n % 10) + 1]>>

\* s * n for a string s and an int n ("  " * depth).
RECURSIVE StrRepeat(_, _)
StrRepeat(s, n) == IF n <= 0 THEN <<>> ELSE s \o StrRepeat(s, n - 1)

\* The listener's variables where listen_progress is not running.
ListenerIdle ==
    /\ message = None
    /\ received = <<>>
    /\ calls = <<>>
    /\ stdout = <<>>
    /\ flushed = 0
    /\ stderr = <<>>
    /\ exit_status = None

(***************************************************************************)
(* AgentTracker                                                            *)
(***************************************************************************)
\* __init__: both dicts empty.
TrackerInit ==
    /\ agents = <<>>
    /\ agent_keys = <<>>
    /\ parent_children = <<>>

\* dict[k] = v on a dict modelled as a function.
DictSet(d, k, v) == [x \in DOMAIN d \cup {k} |-> IF x = k THEN v ELSE d[x]]

\* The depth start_agent computes (lines 47-49), one level deeper than the parent's.
StartDepthSameAsParent(ag, parent_id) ==
    IF Truthy(parent_id) /\ parent_id \in DOMAIN ag
    THEN ag[parent_id].depth
    ELSE 0

StartDepth(ag, parent_id) ==
    IF Truthy(parent_id) /\ parent_id \in DOMAIN ag
    THEN ag[parent_id].depth + 1
    ELSE 0

\* The three dicts/lists after start_agent(agent_id, parent_id) with time.time() = now.
StartAgentsAdoptsOrphans(ag, agent_id, parent_id, now) ==
    [x \in DOMAIN ag \cup {agent_id} |->
        IF x = agent_id
        THEN [parentId |-> parent_id, startTime |-> now, depth |-> StartDepth(ag, parent_id)]
        ELSE IF ag[x].parentId = agent_id
             THEN [ag[x] EXCEPT !.depth = StartDepth(ag, parent_id) + 1]
             ELSE ag[x]]

StartAgentsKeepsFirst(ag, agent_id, parent_id, now) ==
    IF agent_id \in DOMAIN ag THEN ag
    ELSE DictSet(ag, agent_id,
                 [parentId |-> parent_id, startTime |-> now, depth |-> StartDepth(ag, parent_id)])

StartAgents(ag, agent_id, parent_id, now) ==
    DictSet(ag, agent_id,
            [parentId |-> parent_id, startTime |-> now, depth |-> StartDepth(ag, parent_id)])

\* A new key goes last in the dict's order; an existing key keeps its place.
StartKeys(ag, keys, agent_id) ==
    IF agent_id \in DOMAIN ag THEN keys ELSE Append(keys, agent_id)

StartChildren(pch, agent_id, parent_id) ==
    IF Truthy(parent_id)
    THEN DictSet(pch, parent_id,
                 Append(IF parent_id \in DOMAIN pch THEN pch[parent_id] ELSE <<>>, agent_id))
    ELSE pch

start_agent(agent_id, parent_id, now) ==
    /\ agents' = StartAgents(agents, agent_id, parent_id, now)
    /\ agent_keys' = StartKeys(agents, agent_keys, agent_id)
    /\ parent_children' = StartChildren(parent_children, agent_id, parent_id)

\* sorted(keys, key=startTime): Python's sort is stable, so keys with equal
\* startTime stay in dict order.  Insert x behind every key not later than it.
RECURSIVE SortedInsertBeforeTies(_, _, _)
SortedInsertBeforeTies(s, x, ag) ==
    IF s = <<>> THEN <<x>>
    ELSE IF ag[s[Len(s)]].startTime < ag[x].startTime
         THEN Append(s, x)
         ELSE Append(SortedInsertBeforeTies(SubSeq(s, 1, Len(s) - 1), x, ag), s[Len(s)])

RECURSIVE SortedInsert(_, _, _)
SortedInsert(s, x, ag) ==
    IF s = <<>> THEN <<x>>
    ELSE IF ag[s[Len(s)]].startTime <= ag[x].startTime
         THEN Append(s, x)
         ELSE Append(SortedInsert(SubSeq(s, 1, Len(s) - 1), x, ag), s[Len(s)])

RECURSIVE SortedAgents(_, _)
SortedAgents(keys, ag) ==
    IF keys = <<>> THEN <<>>
    ELSE SortedInsert(SortedAgents(SubSeq(keys, 1, Len(keys) - 1), ag), keys[Len(keys)], ag)

\* list.index(x) + 1, and 0 where list.index raises ValueError (lines 83-86).
IndexZeroBased(s, x) ==
    IF \E i \in 1..Len(s) : s[i] = x
    THEN (CHOOSE i \in 1..Len(s) : s[i] = x /\ \A j \in 1..(i - 1) : s[j] # x) - 1
    ELSE 0

IndexPlusOne(s, x) ==
    IF \E i \in 1..Len(s) : s[i] = x
    THEN CHOOSE i \in 1..Len(s) : s[i] = x /\ \A j \in 1..(i - 1) : s[j] # x
    ELSE 0

\* The number as a count of the agents that started strictly earlier.
GetAgentNumByCount(ag, keys, agent_id) ==
    IF agent_id \notin DOMAIN ag THEN 0
    ELSE 1 + Cardinality({a \in DOMAIN ag : ag[a].startTime < ag[agent_id].startTime})

GetAgentNum(ag, keys, agent_id) == IndexPlusOne(SortedAgents(keys, ag), agent_id)

_get_agent_num(agent_id) == GetAgentNum(agents, agent_keys, agent_id)

\* "  " * depth, or "" for an unknown id (lines 88-93).
IndentOneSpace(ag, agent_id) ==
    IF agent_id \notin DOMAIN ag THEN <<>>
    ELSE StrRepeat(<<" ">>, ag[agent_id].depth)

GetIndent(ag, agent_id) ==
    IF agent_id \notin DOMAIN ag THEN <<>>
    ELSE StrRepeat(<<" ", " ">>, ag[agent_id].depth)

get_indent(agent_id) == GetIndent(agents, agent_id)

\* "[Agent]", "[Agent #n]" or "[Agent #c → #p]" (lines 62-78).
GetAgentPrefixNoPlaceholder(ag, keys, agent_id) ==
    IF agent_id \in DOMAIN ag /\ Truthy(ag[agent_id].parentId)
    THEN <<"[Agent #">> \o IntToStr(GetAgentNum(ag, keys, agent_id))
         \o <<" → #">> \o IntToStr(GetAgentNum(ag, keys, ag[agent_id].parentId))
         \o <<"]">>
    ELSE <<"[Agent #">> \o IntToStr(GetAgentNum(ag, keys, agent_id)) \o <<"]">>

GetAgentPrefix(ag, keys, agent_id) ==
    IF agent_id \notin DOMAIN ag THEN <<"[Agent]">>
    ELSE IF Truthy(ag[agent_id].parentId)
         THEN <<"[Agent #">> \o IntToStr(GetAgentNum(ag, keys, agent_id))
              \o <<" → #">> \o IntToStr(GetAgentNum(ag, keys, ag[agent_id].parentId))
              \o <<"]">>
         ELSE <<"[Agent #">> \o IntToStr(GetAgentNum(ag, keys, agent_id)) \o <<"]">>

get_agent_prefix(agent_id) == GetAgentPrefix(agents, agent_keys, agent_id)

(***************************************************************************)
(* SpecTracker: the tracker driven by start_agent calls directly.          *)
(***************************************************************************)
InitTracker ==
    /\ TrackerInit
    /\ starts = <<>>
    /\ pc = "tracker"
    /\ arg = None
    /\ ret = <<>>
    /\ ListenerIdle

StartAgent ==
    /\ pc = "tracker"
    /\ Len(starts) < MaxStarts
    /\ \E agent_id \in AgentIds, parent_id \in ParentIds, now \in ClockReadings :
          /\ start_agent(agent_id, parent_id, now)
          /\ starts' = Append(starts, <<agent_id, parent_id, now>>)
    /\ UNCHANGED <<pc, arg, ret>>
    /\ UNCHANGED listener

NextTracker == StartAgent

SpecTracker == InitTracker /\ [][NextTracker]_vars

(***************************************************************************)
(* format_duration                                                         *)
(*                                                                         *)
(* ms / 1000 and ms / 60000 are IEEE doubles, and ".1f" rounds the exact   *)
(* value of the double to one decimal, a tie going to the even digit.  The *)
(* double nearest to n/d is found by binary long division: 53 significant  *)
(* bits are kept and the rest decides which way the quotient was rounded.  *)
(***************************************************************************)
RECURSIVE BitLength(_)
BitLength(n) == IF n = 0 THEN 0 ELSE 1 + BitLength(n \div 2)

\* The remainder and the last bit after k more bits of the quotient r/d.
RECURSIVE DivideBits(_, _, _, _)
DivideBits(r, d, last, k) ==
    IF k = 0 THEN <<r, last>>
    ELSE DivideBits((2 * r) % d, d, (2 * r) \div d, k - 1)

\* Sign of double(n/d) - n/d for n >= d: 0 when n/d is a double.
DoubleError(n, d) ==
    LET i  == n \div d
        rl == DivideBits(n % d, d, i % 2, 53 - BitLength(i))
        r  == rl[1]
    IN  IF r = 0 THEN 0
        ELSE IF 2 * r < d THEN -1
        ELSE IF 2 * r > d THEN 1
        ELSE IF rl[2] = 0 THEN -1 ELSE 1

\* n/d in tenths, cut off instead of rounded.
TenthsTruncated(n, d) == (10 * n) \div d

\* n/d in tenths as f"{n / d:.1f}" prints it.
Tenths(n, d) ==
    LET fl  == (10 * n) \div d
        rem == (10 * n) % d
    IN  IF 2 * rem < d THEN fl
        ELSE IF 2 * rem > d THEN fl + 1
        ELSE IF DoubleError(n, d) > 0 THEN fl + 1
        ELSE IF DoubleError(n, d) < 0 THEN fl
        ELSE IF fl % 2 = 0 THEN fl ELSE fl + 1

\* A number of tenths as digits, a point and one digit.
OneDecimal(t) == IntToStr(t \div 10) \o <<".", DigitChar[(t % 10) + 1]>>

format_duration(ms) ==
    IF ms < 1000 THEN IntToStr(ms) \o <<"ms">>
    ELSE IF ms < 60000 THEN OneDecimal(Tenths(ms, 1000)) \o <<"s">>
    ELSE OneDecimal(Tenths(ms, 60000)) \o <<"m">>

(***************************************************************************)
(* SpecDuration: format_duration applied to every duration up to the bound.*)
(***************************************************************************)
DurationInputs == 0..MaxDurationMs

InitDuration ==
    /\ TrackerInit
    /\ starts = <<>>
    /\ pc = "duration"
    /\ arg \in DurationInputs
    /\ ret = <<>>
    /\ ListenerIdle

FormatDuration ==
    /\ pc = "duration"
    /\ ret = <<>>
    /\ ret' = format_duration(arg)
    /\ UNCHANGED <<agents, agent_keys, parent_children, starts, pc, arg>>
    /\ UNCHANGED listener

NextDuration == FormatDuration

SpecDuration == InitDuration /\ [][NextDuration]_vars

\* The number a run of digit characters denotes.
DigitValue(c) == CHOOSE v \in 0..9 : DigitChar[v + 1] = c

RECURSIVE StrToInt(_)
StrToInt(s) ==
    IF s = <<>> THEN 0
    ELSE 10 * StrToInt(SubSeq(s, 1, Len(s) - 1)) + DigitValue(s[Len(s)])

IsDigits(s) == Len(s) >= 1 /\ \A i \in 1..Len(s) : \E v \in 0..9 : DigitChar[v + 1] = s[i]

\* s is "<digits>.<digit><unit>" and the number it shows is within half a tenth
\* of ms / perUnit: it is ms / perUnit rounded to one decimal.
RoundedTo1Decimal(s, ms, perUnit, unit) ==
    /\ Len(s) >= 4
    /\ s[Len(s)] = unit
    /\ s[Len(s) - 2] = "."
    /\ IsDigits(SubSeq(s, 1, Len(s) - 3))
    /\ IsDigits(<<s[Len(s) - 1]>>)
    /\ LET shown == 10 * StrToInt(SubSeq(s, 1, Len(s) - 3)) + DigitValue(s[Len(s) - 1])
       IN  /\ 2 * (shown * perUnit - 10 * ms) <= perUnit
           /\ 2 * (10 * ms - shown * perUnit) <= perUnit

\* C6: format_duration returns a string for every non-negative integer ms and
\* picks the unit by threshold: below 1000 the integer and "ms", from 1000 up to
\* 60000 seconds rounded to one decimal and "s", from 60000 on minutes rounded to
\* one decimal and "m"; 0 -> "0ms", 999 -> "999ms", 1000 -> "1.0s",
\* 59999 -> "60.0s", 60000 -> "1.0m", 125000 -> "2.1m".
C6_FormatDuration ==
    (pc = "duration" /\ ret # <<>>) =>
        /\ arg < 1000 => ret = IntToStr(arg) \o <<"ms">> /\ StrToInt(IntToStr(arg)) = arg
        /\ (1000 <= arg /\ arg < 60000) => RoundedTo1Decimal(ret, arg, 1000, "s")
        /\ arg >= 60000 => RoundedTo1Decimal(ret, arg, 60000, "m")
        /\ arg = 0 => ret = <<"0", "ms">>
        /\ arg = 999 => ret = <<"9", "9", "9", "ms">>
        /\ arg = 1000 => ret = <<"1", ".", "0", "s">>
        /\ arg = 59999 => ret = <<"6", "0", ".", "0", "s">>
        /\ arg = 60000 => ret = <<"1", ".", "0", "m">>
        /\ arg = 125000 => ret = <<"2", ".", "1", "m">>

\* 59999 ms has been formatted, and came out as "60.0s".
C6_Witness ==
    /\ pc = "duration"
    /\ arg = 59999
    /\ ret = <<"6", "0", ".", "0", "s">>

\* Spot values where the double decides the tie: as CPython prints them.
DurationTies ==
    (pc = "duration" /\ ret # <<>>) =>
        /\ arg = 1050 => ret = <<"1", ".", "1", "s">>
        /\ arg = 1150 => ret = <<"1", ".", "1", "s">>
        /\ arg = 1250 => ret = <<"1", ".", "2", "s">>
        /\ arg = 1350 => ret = <<"1", ".", "4", "s">>
        /\ arg = 2450 => ret = <<"2", ".", "5", "s">>
        /\ arg = 2550 => ret = <<"2", ".", "5", "s">>
        /\ arg = 63000 => ret = <<"1", ".", "1", "m">>
        /\ arg = 69000 => ret = <<"1", ".", "1", "m">>
        /\ arg = 75000 => ret = <<"1", ".", "2", "m">>
        /\ arg = 129000 => ret = <<"2", ".", "1", "m">>

(***************************************************************************)
(* Events: what json.loads returns.  A JSON value carries its Python type: *)
(* <<"str", s>>, <<"num", n>>, <<"bool", b>>, <<"null">>, <<"list", items>>*)
(* and <<"obj", fields>>; the fields of an object are <<key, value>> pairs *)
(* in the order of the message, as a dict keeps them.                      *)
(***************************************************************************)
Str(x) == <<"str", x>>

Num(n) == <<"num", n>>

Bool(b) == <<"bool", b>>

Null == <<"null">>

List(items) == <<"list", items>>

Obj(fields) == <<"obj", fields>>

HasKey(fields, k) == \E i \in 1..Len(fields) : fields[i][1] = k

\* dict.get(k, default)
EventGet(fields, k, default) ==
    IF HasKey(fields, k)
    THEN fields[CHOOSE i \in 1..Len(fields) : fields[i][1] = k][2]
    ELSE default

\* bool(v)
TruthyValue(v) ==
    CASE v[1] = "str"  -> v[2] # ""
      [] v[1] = "num"  -> v[2] # 0
      [] v[1] = "bool" -> v[2]
      [] v[1] = "null" -> FALSE
      [] OTHER         -> Len(v[2]) > 0

\* The Python value of an id field as the tracker keys it: None, or the string.
PyId(v) == IF v[1] = "null" THEN None ELSE v[2]

\* int and bool support "<" and "/"; None, str, list and dict raise TypeError.
IsNumber(v) == v[1] \in {"num", "bool"}

NumberOf(v) == IF v[1] = "bool" THEN (IF v[2] THEN 1 ELSE 0) ELSE v[2]

\* str(v), as an f-string shows a scalar; a container is shown by its brackets.
Show(v) ==
    CASE v[1] = "str"  -> <<v[2]>>
      [] v[1] = "num"  -> IntToStr(v[2])
      [] v[1] = "bool" -> <<IF v[2] THEN "True" ELSE "False">>
      [] v[1] = "null" -> <<"None">>
      [] v[1] = "list" -> <<"[", "...", "]">>
      [] OTHER         -> <<"{", "...", "}">>

\* ', '.join(items) of a list of strings.
RECURSIVE CommaJoin(_)
CommaJoin(items) ==
    IF items = <<>> THEN <<>>
    ELSE IF Len(items) = 1 THEN <<items[1][2]>>
    ELSE <<items[1][2], ", ">> \o CommaJoin(SubSeq(items, 2, Len(items)))

\* Colors: the ANSI escape sequences (each the empty string under --no-color).
HEADER == "ESC[95m"

OKBLUE == "ESC[94m"

OKCYAN == "ESC[96m"

OKGREEN == "ESC[92m"

WARNING == "ESC[93m"

FAIL == "ESC[91m"

ENDC == "ESC[0m"

BOLD == "ESC[1m"

\* "%02d"
TwoDigits(n) == <<DigitChar[(n \div 10) + 1], DigitChar[(n % 10) + 1]>>

\* datetime.fromtimestamp(ms / 1000).strftime('%H:%M:%S'), the local zone taken as UTC.
format_timestamp(timestamp_ms) ==
    LET secs == timestamp_ms \div 1000
    IN  TwoDigits((secs \div 3600) % 24) \o <<":">> \o TwoDigits((secs \div 60) % 60)
        \o <<":">> \o TwoDigits(secs % 60)

(***************************************************************************)
(* format_event                                                            *)
(***************************************************************************)
EventTypes ==
    {"connected", "ready", "agent_loop_started", "agent_loop_step_started",
     "model_invocation_started", "model_invocation_completed",
     "tool_execution_started", "tool_execution_completed", "agent_loop_completed",
     "error", "server:shutdown"}

\* event.get('type', 'unknown'), and whether it is the given type name.
EventType(e) == EventGet(e, "type", Str("unknown"))

TypeIs(e, name) == EventType(e) = Str(name)

\* The guard of the registration (line 127).
RegistersAnyType(event_type, agent_id) == TruthyValue(agent_id)

RegistersEmptyId(event_type, agent_id) ==
    event_type = Str("agent_loop_started") /\ agent_id # Null

Registers(event_type, agent_id) ==
    event_type = Str("agent_loop_started") /\ TruthyValue(agent_id)

\* The tracker state the header of an agent_loop_started event is computed from:
\* start_agent runs first (line 128), the prefix and indent are read after it.
HeaderTrackerBeforeStart(before, after) == before

HeaderTracker(before, after) == after

\* The fields the fallback branch dumps (lines 218-219): all but the
\* discriminant and the timestamp, in the order of the event.
DumpedFieldsKeepTimestamp(e) == SelectSeq(e, LAMBDA f : f[1] \notin {"type"})

DumpedFields(e) == SelectSeq(e, LAMBDA f : f[1] \notin {"type", "timestamp"})

\* Whether the estimated-token line is shown for the value event.get gave
\* (None when the field is absent): "if estimated" (line 163).
ShowsEstimateIfPresent(v) == v # Null

ShowsEstimate(v) == TruthyValue(v)

\* Lines 135-220: the lines of the block, given the formatted timestamp ts, the
\* indentation and the agent prefix.
EventLines(e, ts, indent, agent_prefix) ==
    LET stamp == <<"[">> \o ts \o <<"] ">>
        head(color) == indent \o <<color>> \o stamp \o agent_prefix \o <<" ">>
        dur(k) == format_duration(NumberOf(EventGet(e, k, Num(0))))
    IN
    CASE TypeIs(e, "connected") ->
            <<<<OKGREEN>> \o stamp \o <<"Connected to Lynkr progress server", ENDC>>,
              <<"  Client ID: ">> \o Show(EventGet(e, "clientId", Null))>>
            \o (IF TruthyValue(EventGet(e, "serverInfo", Obj(<<>>)))
                THEN <<<<"  Features: ">>
                        \o CommaJoin(EventGet(EventGet(e, "serverInfo", Obj(<<>>))[2],
                                              "features", List(<<>>))[2])>>
                ELSE <<>>)
      [] TypeIs(e, "ready") ->
            <<<<OKCYAN>> \o stamp \o Show(EventGet(e, "message", Str("Ready"))) \o <<ENDC>>>>
      [] TypeIs(e, "agent_loop_started") ->
            <<head(HEADER) \o <<BOLD, "Started", ENDC>>,
              indent \o <<"  Model: ", OKCYAN>> \o Show(EventGet(e, "model", Null)) \o <<ENDC>>,
              indent \o <<"  Provider: ">> \o Show(EventGet(e, "providerType", Null)),
              indent \o <<"  Max steps: ">> \o Show(EventGet(e, "maxSteps", Null)),
              indent \o <<"  Max duration: ">> \o dur("maxDurationMs")>>
      [] TypeIs(e, "agent_loop_step_started") ->
            <<head(OKBLUE) \o <<"Step ", BOLD>> \o Show(EventGet(e, "step", Num(0)))
              \o <<"/">> \o Show(EventGet(e, "maxSteps", Num(0))) \o <<ENDC, " (">>
              \o Show(EventGet(e, "progress", Num(0))) \o <<"%)">>>>
      [] TypeIs(e, "model_invocation_started") ->
            <<head(OKCYAN) \o <<"Calling model...", ENDC>>,
              indent \o <<"  Model: ">> \o Show(EventGet(e, "model", Null)),
              indent \o <<"  Provider: ">> \o Show(EventGet(e, "providerType", Null))>>
            \o (IF ShowsEstimate(EventGet(e, "estimatedTokens", Null))
                THEN <<indent \o <<"  Estimated tokens: ~">>
                       \o Show(EventGet(e, "estimatedTokens", Null))>>
                ELSE <<>>)
      [] TypeIs(e, "model_invocation_completed") ->
            <<head(OKGREEN) \o <<"Model response received", ENDC>>,
              indent \o <<"  Duration: ">> \o dur("durationMs"),
              indent \o <<"  Tokens: ">> \o Show(EventGet(e, "inputTokens", Num(0)))
              \o <<" in → ">> \o Show(EventGet(e, "outputTokens", Num(0))) \o <<" out">>>>
      [] TypeIs(e, "tool_execution_started") ->
            <<head(WARNING) \o <<"Executing tool: ", BOLD>>
              \o Show(EventGet(e, "toolName", Str("unknown"))) \o <<ENDC>>>>
            \o (IF TruthyValue(EventGet(e, "requestPreview", Null))
                THEN <<indent \o <<"  Request: ">> \o Show(EventGet(e, "requestPreview", Null))>>
                ELSE <<>>)
            \o (IF TruthyValue(EventGet(e, "toolId", Str("")))
                THEN <<indent \o <<"  ID: ">> \o Show(EventGet(e, "toolId", Str("")))>>
                ELSE <<>>)
      [] TypeIs(e, "tool_execution_completed") ->
            <<head(OKCYAN) \o <<"Tool ">> \o Show(EventGet(e, "toolName", Str("unknown")))
              \o <<": ">>
              \o (IF TruthyValue(EventGet(e, "ok", Bool(TRUE)))
                  THEN <<OKGREEN, "OK", ENDC>> ELSE <<FAIL, "FAILED", ENDC>>)
              \o <<ENDC>>,
              indent \o <<"  Duration: ">> \o dur("durationMs")>>
            \o (IF TruthyValue(EventGet(e, "responsePreview", Null))
                THEN <<indent \o <<"  Response: ">> \o Show(EventGet(e, "responsePreview", Null))>>
                ELSE <<>>)
      [] TypeIs(e, "agent_loop_completed") ->
            <<indent \o <<OKGREEN, BOLD>> \o stamp \o agent_prefix \o <<" ">>
              \o <<"Completed", ENDC>>,
              indent \o <<"  Duration: ">> \o dur("durationMs"),
              indent \o <<"  Steps: ">> \o Show(EventGet(e, "steps", Num(0))),
              indent \o <<"  Tool calls: ">> \o Show(EventGet(e, "toolCallsExecuted", Num(0))),
              indent \o <<"  Reason: ">> \o Show(EventGet(e, "terminationReason", Str("completion")))>>
      [] TypeIs(e, "error") ->
            <<<<FAIL, BOLD>> \o stamp \o <<"ERROR: ">>
              \o Show(EventGet(e, "errorType", Str("unknown"))) \o <<ENDC>>,
              <<"  ">> \o Show(EventGet(e, "errorMessage", Str("No message")))>>
      [] TypeIs(e, "server:shutdown") ->
            <<<<WARNING>> \o stamp \o <<"Server shutting down", ENDC>>>>
      [] OTHER ->
            <<<<OKCYAN>> \o stamp \o Show(EventType(e)) \o <<ENDC>>>>
            \o [i \in 1..Len(DumpedFields(e)) |->
                  <<"  ", DumpedFields(e)[i][1], ": ">> \o Show(DumpedFields(e)[i][2])]

\* The key whose value format_duration is called on, for the types that call it.
DurationKey(e) ==
    IF TypeIs(e, "agent_loop_started") THEN "maxDurationMs"
    ELSE IF \/ TypeIs(e, "model_invocation_completed")
            \/ TypeIs(e, "tool_execution_completed")
            \/ TypeIs(e, "agent_loop_completed") THEN "durationMs"
    ELSE "none"

\* format_timestamp raises TypeError on a timestamp that is not a number (line 118).
TimestampRaises(e) == ~IsNumber(EventGet(e, "timestamp", Num(0)))

\* format_duration raises TypeError on a duration that is not a number; an
\* absent duration is read as 0.
DurationRaisesNoDefault(e) ==
    DurationKey(e) # "none" /\ ~IsNumber(EventGet(e, DurationKey(e), Null))

DurationRaises(e) ==
    DurationKey(e) # "none" /\ ~IsNumber(EventGet(e, DurationKey(e), Num(0)))

\* The tracker <<agents, keys, parent_children>> after an event that does not
\* register: every branch but the one of line 128 only reads it, the one of
\* agent_loop_completed (lines 195-204) included.
ForgetsCompleted(e, t) ==
    IF TypeIs(e, "agent_loop_completed") /\ PyId(EventGet(e, "agentId", Null)) \in DOMAIN t[1]
    THEN <<[a \in DOMAIN t[1] \ {PyId(EventGet(e, "agentId", Null))} |-> t[1][a]],
           SelectSeq(t[2], LAMBDA a : a # PyId(EventGet(e, "agentId", Null))),
           t[3]>>
    ELSE t

ReadOnly(e, t) == t

\* Whether format_event(e) reaches start_agent: line 118 did not raise and the
\* guard of line 127 holds.
CallsStartAgent(e) ==
    ~TimestampRaises(e) /\ Registers(EventType(e), EventGet(e, "agentId", Null))

\* The readings of time.time() a call format_event(e) may see, out of the set
\* clock: the one of line 118 decides the timestamp shown only when the event
\* carries none (it is dropped otherwise, written 0 here), the one of line 53 is
\* taken only when start_agent is called.
TimestampReadings(e, clock) == IF HasKey(e, "timestamp") THEN {0} ELSE clock

StartReadings(e, clock) == IF CallsStartAgent(e) THEN clock ELSE {0}

\* format_event(event) on the tracker <<ag, keys, pch>> with the clock readings
\* wall (line 118) and now (line 53), in whole seconds: the tracker afterwards,
\* whether start_agent was called, whether an exception left the function, and
\* the block returned.
FormatEvent(e, ag, keys, pch, wall, now) ==
    LET agent_id  == EventGet(e, "agentId", Null)
        parent_id == EventGet(e, "parentAgentId", Null)
        reg       == CallsStartAgent(e)
        kept      == ReadOnly(e, <<ag, keys, pch>>)
        ag2       == IF reg THEN StartAgents(ag, PyId(agent_id), PyId(parent_id), now)
                     ELSE kept[1]
        keys2     == IF reg THEN StartKeys(ag, keys, PyId(agent_id)) ELSE kept[2]
        pch2      == IF reg THEN StartChildren(pch, PyId(agent_id), PyId(parent_id))
                     ELSE kept[3]
        hdr       == IF reg THEN HeaderTracker(<<ag, keys>>, <<ag2, keys2>>) ELSE <<ag, keys>>
        known     == TruthyValue(agent_id)
        prefix    == IF known THEN GetAgentPrefix(hdr[1], hdr[2], PyId(agent_id)) ELSE <<>>
        indent    == IF known THEN GetIndent(hdr[1], PyId(agent_id)) ELSE <<>>
        raised    == TimestampRaises(e) \/ DurationRaises(e)
    IN  [agents          |-> ag2,
         agent_keys      |-> keys2,
         parent_children |-> pch2,
         registered      |-> reg,
         raised          |-> raised,
         block           |-> IF raised THEN <<>>
                             ELSE EventLines(e,
                                    format_timestamp(
                                        NumberOf(EventGet(e, "timestamp", Num(wall * 1000)))),
                                    indent, prefix)]

(***************************************************************************)
(* SpecRender: format_event applied once to an event, on every tracker     *)
(* state that up to MaxPriorStarts earlier registrations lead to.          *)
(***************************************************************************)
\* The ids, parents and clock readings of the earlier registrations.
RenderIds == {"a1", "a2"}

RenderClock == {0, 1}

PriorCalls == RenderIds \X (RenderIds \cup {None}) \X RenderClock

RECURSIVE CallSeqs(_)
CallSeqs(n) ==
    IF n = 0 THEN {<<>>}
    ELSE CallSeqs(n - 1) \cup
         {Append(s, c) : s \in {x \in CallSeqs(n - 1) : Len(x) = n - 1}, c \in PriorCalls}

\* The tracker <<agents, agent_keys, parent_children>> after the calls of cs.
RECURSIVE ReplayStarts(_)
ReplayStarts(cs) ==
    IF cs = <<>> THEN <<<<>>, <<>>, <<>>>>
    ELSE LET t == ReplayStarts(SubSeq(cs, 1, Len(cs) - 1))
             c == cs[Len(cs)]
         IN  <<StartAgents(t[1], c[1], c[2], c[3]),
               StartKeys(t[1], t[2], c[1]),
               StartChildren(t[3], c[1], c[2])>>

\* The events rendered: every recognised type, an unrecognised one and no type
\* at all, with agentId absent, empty, or the id of an agent that is registered
\* in some of the tracker states and not in others; the agent-start event and
\* the unrecognised one also with a parentAgentId, empty or an id.
RenderAgentFields ==
    {<<<<"agentId", v>>>> : v \in {Str(""), Str("a1"), Str("a2")}} \cup {<<>>}

RenderParentFields ==
    {<<<<"parentAgentId", v>>>> : v \in {Str(""), Str("a1"), Str("a2")}} \cup {<<>>}

RenderEvents ==
    {<<<<"type", Str(t)>>>> \o a \o p :
        t \in {"agent_loop_started", "custom_x"},
        a \in RenderAgentFields, p \in RenderParentFields}
    \cup
    {<<<<"type", Str(t)>>>> \o a :
        t \in EventTypes \ {"agent_loop_started"}, a \in RenderAgentFields}
    \cup RenderAgentFields

InitRender ==
    /\ starts \in CallSeqs(MaxPriorStarts)
    /\ agents = ReplayStarts(starts)[1]
    /\ agent_keys = ReplayStarts(starts)[2]
    /\ parent_children = ReplayStarts(starts)[3]
    /\ pc = "render"
    /\ arg \in RenderEvents
    /\ ret = <<>>
    /\ ListenerIdle

\* One call format_event(arg).
RenderEvent ==
    /\ pc = "render"
    /\ \E wall \in TimestampReadings(arg, RenderClock), now \in StartReadings(arg, RenderClock) :
          \E r \in {FormatEvent(arg, agents, agent_keys, parent_children, wall, now)} :
              /\ agents' = r.agents
              /\ agent_keys' = r.agent_keys
              /\ parent_children' = r.parent_children
              /\ starts' = IF r.registered
                           THEN Append(starts, <<PyId(EventGet(arg, "agentId", Null)),
                                                 PyId(EventGet(arg, "parentAgentId", Null)), now>>)
                           ELSE starts
              /\ ret' = r.block
              /\ pc' = IF r.raised THEN "raised" ELSE "rendered"
    /\ UNCHANGED arg
    /\ UNCHANGED listener

NextRender == RenderEvent

SpecRender == InitRender /\ [][NextRender]_vars

(***************************************************************************)
(* SpecFields: format_event applied once to an event, the fields the event *)
(* carries and their order varying, on a few tracker states.               *)
(***************************************************************************)
\* The sequences of up to n fields out of pool, in every order; an event is one
\* that has no key twice, as a dict has each key once.
RECURSIVE FieldSeqs(_, _)
FieldSeqs(pool, n) ==
    IF n = 0 THEN {<<>>}
    ELSE FieldSeqs(pool, n - 1) \cup
         {Append(s, f) : s \in {x \in FieldSeqs(pool, n - 1) : Len(x) = n - 1},
                         f \in pool}

NoKeyTwice(e) == \A i, j \in 1..Len(e) : i # j => e[i][1] # e[j][1]

\* Events of an unrecognised type, or of no type at all.
UnrecognisedPool ==
    {<<"type", Str("custom_x")>>, <<"timestamp", Num(1000)>>, <<"foo", Str("bar")>>,
     <<"baz", Num(3)>>, <<"agentId", Str("a1")>>}

UnrecognisedEvents == {e \in FieldSeqs(UnrecognisedPool, MaxDumpFields) : NoKeyTwice(e)}

\* The events a list of optional fields gives: each field absent or present with
\* one of its values, the fields present in the order of the list.
RECURSIVE OptionSeqs(_)
OptionSeqs(fields) ==
    IF fields = <<>> THEN {<<>>}
    ELSE OptionSeqs(Tail(fields)) \cup
         {<<<<fields[1][1], v>>>> \o rest : v \in fields[1][2], rest \in OptionSeqs(Tail(fields))}

\* The optional fields format_event reads for each recognised type, with the
\* values they are given when present.
Stamped == <<"timestamp", {Num(1000)}>>

OfAgent == <<"agentId", {Str("a1")}>>

OptionalFields(t) ==
    CASE t = "connected" ->
            <<Stamped, <<"clientId", {Str("c7")}>>,
              <<"serverInfo", {Obj(<<<<"features", List(<<Str("f1"), Str("f2")>>)>>>>),
                               Obj(<<<<"version", Num(2)>>>>)}>>>>
      [] t = "ready" -> <<Stamped, <<"message", {Str("hello")}>>>>
      [] t = "agent_loop_started" ->
            <<Stamped, OfAgent, <<"parentAgentId", {Str("a2")}>>, <<"model", {Str("m1")}>>,
              <<"providerType", {Str("p1")}>>, <<"maxSteps", {Num(8)}>>,
              <<"maxDurationMs", {Num(5000)}>>>>
      [] t = "agent_loop_step_started" ->
            <<Stamped, OfAgent, <<"step", {Num(2)}>>, <<"maxSteps", {Num(8)}>>,
              <<"progress", {Num(25)}>>>>
      [] t = "model_invocation_started" ->
            <<Stamped, OfAgent, <<"model", {Str("m1")}>>, <<"providerType", {Str("p1")}>>,
              <<"estimatedTokens", {Num(0), Num(120)}>>>>
      [] t = "model_invocation_completed" ->
            <<Stamped, OfAgent, <<"durationMs", {Num(1500)}>>, <<"inputTokens", {Num(7)}>>,
              <<"outputTokens", {Num(9)}>>>>
      [] t = "tool_execution_started" ->
            <<Stamped, OfAgent, <<"toolName", {Str("grep")}>>, <<"toolId", {Str("t1")}>>,
              <<"requestPreview", {Str("req")}>>>>
      [] t = "tool_execution_completed" ->
            <<Stamped, OfAgent, <<"toolName", {Str("grep")}>>, <<"ok", {Bool(FALSE)}>>,
              <<"durationMs", {Num(1500)}>>, <<"responsePreview", {Str("resp")}>>>>
      [] t = "agent_loop_completed" ->
            <<Stamped, OfAgent, <<"durationMs", {Num(61000)}>>, <<"steps", {Num(4)}>>,
              <<"toolCallsExecuted", {Num(3)}>>, <<"terminationReason", {Str("max_steps")}>>>>
      [] t = "error" ->
            <<Stamped, <<"errorType", {Str("timeout")}>>, <<"errorMessage", {Str("late")}>>>>
      [] OTHER -> <<Stamped>>

RecognisedEvents ==
    UNION {{<<<<"type", Str(t)>>>> \o fs : fs \in OptionSeqs(OptionalFields(t))} :
              t \in EventTypes}

FieldEvents == UnrecognisedEvents \cup RecognisedEvents

\* The trackers the events are rendered on: empty, one root, a root and its child.
FieldTrackers ==
    {<<>>, <<<<"a1", None, 0>>>>, <<<<"a1", None, 0>>, <<"a2", "a1", 1>>>>}

InitFields ==
    /\ starts \in FieldTrackers
    /\ agents = ReplayStarts(starts)[1]
    /\ agent_keys = ReplayStarts(starts)[2]
    /\ parent_children = ReplayStarts(starts)[3]
    /\ pc = "render"
    /\ arg \in FieldEvents
    /\ ret = <<>>
    /\ ListenerIdle

SpecFields == InitFields /\ [][NextRender]_vars

(***************************************************************************)
(* Spec: listen_progress, from the moment the connection is open.          *)
(***************************************************************************)
\* Messages: text that json.loads rejects with JSONDecodeError (its characters),
\* text that decodes to an object, text that decodes to another JSON value.
Malformed(text) == <<"malformed", text>>

Object(fields) == <<"object", fields>>

Value(v) == <<"value", v>>

\* The timestamp field the server puts on its events (milliseconds).
SentAt == <<"timestamp", Num(1000)>>

\* The events the listener is sent: agent starts, with and without a parent, and
\* steps, for two agents or without agentId; an unrecognised type, once bare and
\* without a timestamp; the end of an agent; and events with a null timestamp or
\* a null duration.
ListenerEvents ==
    {<<<<"type", Str("agent_loop_started")>>, SentAt>> \o a \o p :
        a \in {<<<<"agentId", Str("a1")>>>>, <<<<"agentId", Str("a2")>>>>},
        p \in {<<>>, <<<<"parentAgentId", Str("a1")>>>>}}
    \cup
    {<<<<"type", Str("agent_loop_started")>>, SentAt>>}
    \cup
    {<<<<"type", Str("agent_loop_step_started")>>, SentAt>> \o a :
        a \in {<<>>, <<<<"agentId", Str("a1")>>>>, <<<<"agentId", Str("a2")>>>>}}
    \cup
    {<<<<"type", Str("custom_x")>>>>,
     <<<<"type", Str("custom_x")>>, SentAt, <<"agentId", Str("a1")>>>>,
     <<<<"type", Str("agent_loop_completed")>>, SentAt, <<"agentId", Str("a1")>>>>}
    \cup
    {<<<<"type", Str("agent_loop_step_started")>>, <<"timestamp", Null>>,
       <<"agentId", Str("a1")>>>>,
     <<<<"type", Str("agent_loop_completed")>>, SentAt, <<"agentId", Str("a1")>>,
       <<"durationMs", Null>>>>,
     <<<<"type", Str("agent_loop_started")>>, SentAt, <<"agentId", Str("a2")>>,
       <<"maxDurationMs", Null>>>>}

Messages ==
    {Object(e) : e \in ListenerEvents}
    \cup {Malformed(<<"{", "t", "y", "p", "e">>), Value(List(<<Num(1)>>))}

ListenerClock == {0, 1}

\* One print(...) to a stream: the kind of output and its lines.
PrintCall(kind, lines) == [kind |-> kind, lines |-> lines]

\* message[:200]
Excerpt(text) == SubSeq(text, 1, IF Len(text) < 200 THEN Len(text) ELSE 200)

\* Lines 228 and 232: the two banners are printed before the loop is entered.
Init ==
    /\ TrackerInit
    /\ starts = <<>>
    /\ pc = "recv"
    /\ arg = None
    /\ ret = <<>>
    /\ message = None
    /\ received = <<>>
    /\ calls = <<>>
    /\ stdout = <<PrintCall("banner", <<<<BOLD, "Connecting to Lynkr progress server at ", "uri",
                                    "...", ENDC>>>>),
                  PrintCall("banner", <<<<OKGREEN, "Connected! Waiting for progress updates...",
                                    ENDC>>, <<>>>>)>>
    /\ flushed = 0
    /\ stderr = <<>>
    /\ exit_status = None

\* message = await websocket.recv() (line 235)
Recv ==
    /\ pc = "recv"
    /\ Len(received) < MaxMessages
    /\ \E m \in Messages :
          /\ message' = m
          /\ received' = Append(received, m)
    /\ pc' = "decode"
    /\ UNCHANGED <<agents, agent_keys, parent_children, starts, arg, ret,
                   calls, stdout, flushed, stderr, exit_status>>

\* What the parse-error handler leaves of the tracker: it does not touch it.
AfterParseErrorCleared(t) == <<<<>>, <<>>, <<>>>>

AfterParseError(t) == t

\* json.loads raises JSONDecodeError: two diagnostic lines, a flush, and the loop
\* goes on (lines 241-244).
HandleParseError ==
    /\ pc = "decode"
    /\ message[1] = "malformed"
    /\ stdout' = stdout \o
                 <<PrintCall("diagnostic", <<<<FAIL, "[ERROR] Failed to parse message: ",
                                           "JSONDecodeError", ENDC>>>>),
                   PrintCall("diagnostic", <<<<"  Raw message: ">> \o Excerpt(message[2])>>)>>
    /\ flushed' = Len(stdout')
    /\ agents' = AfterParseError(tracker)[1]
    /\ agent_keys' = AfterParseError(tracker)[2]
    /\ parent_children' = AfterParseError(tracker)[3]
    /\ pc' = "recv"
    /\ UNCHANGED <<starts, arg, ret, message, received, calls, stderr, exit_status>>

\* What the loop prints for a rendered block: the block, then an empty line
\* (lines 238-239).
BlockPrints(block) == <<PrintCall("block", block), PrintCall("blank", <<<<>>>>)>>

\* json.loads returns an object and format_event returns: the block and an empty
\* line are printed and flushed, and the loop goes on (lines 237-240).
HandleEvent ==
    /\ pc = "decode"
    /\ message[1] = "object"
    /\ \E wall \in TimestampReadings(message[2], ListenerClock),
          now \in StartReadings(message[2], ListenerClock) :
          \E r \in {FormatEvent(message[2], agents, agent_keys, parent_children, wall, now)} :
              /\ ~r.raised
              /\ agents' = r.agents
              /\ agent_keys' = r.agent_keys
              /\ parent_children' = r.parent_children
              /\ starts' = IF r.registered
                           THEN Append(starts, <<PyId(EventGet(message[2], "agentId", Null)),
                                                 PyId(EventGet(message[2], "parentAgentId", Null)),
                                                 now>>)
                           ELSE starts
              /\ arg' = message[2]
              /\ ret' = r.block
              /\ calls' = Append(calls, <<message[2], wall, now>>)
              /\ stdout' = stdout \o BlockPrints(r.block)
    /\ flushed' = Len(stdout')
    /\ pc' = "recv"
    /\ UNCHANGED <<message, received, stderr, exit_status>>

\* The loop with a handler that reports the exception and receives again.
HandleExceptionContinues ==
    /\ pc = "decode"
    /\ \/ /\ message[1] = "value"
          /\ UNCHANGED <<agents, agent_keys, parent_children, starts, arg, calls>>
       \/ /\ message[1] = "object"
          /\ \E wall \in TimestampReadings(message[2], ListenerClock),
                now \in StartReadings(message[2], ListenerClock) :
                \E r \in {FormatEvent(message[2], agents, agent_keys, parent_children,
                                      wall, now)} :
                    /\ r.raised
                    /\ agents' = r.agents
                    /\ agent_keys' = r.agent_keys
                    /\ parent_children' = r.parent_children
                    /\ starts' = IF r.registered
                                 THEN Append(starts,
                                             <<PyId(EventGet(message[2], "agentId", Null)),
                                               PyId(EventGet(message[2], "parentAgentId", Null)),
                                               now>>)
                                 ELSE starts
                    /\ arg' = message[2]
                    /\ calls' = Append(calls, <<message[2], wall, now>>)
    /\ stderr' = Append(stderr, PrintCall("error", <<<<>>, <<FAIL, "Unexpected error: ",
                                                        "exception", ENDC>>>>))
    /\ pc' = "recv"
    /\ UNCHANGED <<ret, message, received, stdout, flushed, exit_status>>

\* json.loads returns, and format_event raises: event.get on a value that is no
\* object (AttributeError), or a TypeError inside format_event.  Only
\* JSONDecodeError is caught in the loop; "except Exception" prints to stderr
\* and exits with status 1 (lines 256-258).
HandleException ==
    /\ pc = "decode"
    /\ \/ /\ message[1] = "value"
          /\ UNCHANGED <<agents, agent_keys, parent_children, starts, arg, calls>>
       \/ /\ message[1] = "object"
          /\ \E wall \in TimestampReadings(message[2], ListenerClock),
                now \in StartReadings(message[2], ListenerClock) :
                \E r \in {FormatEvent(message[2], agents, agent_keys, parent_children,
                                      wall, now)} :
                    /\ r.raised
                    /\ agents' = r.agents
                    /\ agent_keys' = r.agent_keys
                    /\ parent_children' = r.parent_children
                    /\ starts' = IF r.registered
                                 THEN Append(starts,
                                             <<PyId(EventGet(message[2], "agentId", Null)),
                                               PyId(EventGet(message[2], "parentAgentId", Null)),
                                               now>>)
                                 ELSE starts
                    /\ arg' = message[2]
                    /\ calls' = Append(calls, <<message[2], wall, now>>)
    /\ stderr' = Append(stderr, PrintCall("error", <<<<>>, <<FAIL, "Unexpected error: ",
                                                        "exception", ENDC>>>>))
    /\ exit_status' = 1
    /\ pc' = "exited"
    /\ UNCHANGED <<ret, message, received, stdout, flushed>>

\* websocket.recv() raises ConnectionClosed: a notice is printed and
\* listen_progress returns (lines 246-247).
ConnectionClosed ==
    /\ pc = "recv"
    /\ stdout' = Append(stdout, PrintCall("notice", <<<<>>, <<WARNING, "Connection closed: ",
                                                         "reason", ENDC>>>>))
    /\ exit_status' = 0
    /\ pc' = "exited"
    /\ UNCHANGED <<agents, agent_keys, parent_children, starts, arg, ret,
                   message, received, calls, flushed, stderr>>

Next ==
    \/ Recv
    \/ HandleParseError
    \/ HandleEvent
    \/ HandleException
    \/ ConnectionClosed

Spec == Init /\ [][Next]_vars

(***************************************************************************)
(* Properties of the tracker, checked under SpecTracker.                   *)
(***************************************************************************)
\* The start_agent calls so far used pairwise distinct agent ids.
DistinctIds == \A i, j \in 1..Len(starts) : i # j => starts[i][1] # starts[j][1]

\* The place of the call that registered id, in the order of the calls.
CallOf(id) == CHOOSE i \in 1..Len(starts) : starts[i][1] = id

\* 1-based rank of id's startTime among the startTimes of the registered ids,
\* agents of equal startTime ranked in the order of their registration.
StartTimeRank(id) ==
    1 + Cardinality({a \in DOMAIN agents : agents[a].startTime < agents[id].startTime})
      + Cardinality({a \in DOMAIN agents : /\ agents[a].startTime = agents[id].startTime
                                           /\ CallOf(a) < CallOf(id)})

LastStart == starts'[Len(starts')]

\* C2: a start_agent call stores depth(parent) + 1 when the parentId it was given
\* was registered at that moment and 0 otherwise, and, with distinct ids, no
\* later call changes the depth stored for an agent.
C2_DepthRule ==
    [][ /\ agents'[LastStart[1]].depth =
              IF LastStart[2] \in DOMAIN agents
              THEN agents[LastStart[2]].depth + 1
              ELSE 0
        /\ \A a \in DOMAIN agents :
              DistinctIds' => agents'[a].depth = agents[a].depth ]_vars

\* A chain root -> child -> grandchild of distinct ids (depths 0, 1, 2) beside
\* which the depth of the earlier agents is still what it was.
C2_Witness ==
    /\ DistinctIds
    /\ Len(starts) = 3
    /\ starts[2][2] = starts[1][1]
    /\ starts[3][2] = starts[2][1]
    /\ agents[starts[1][1]].depth = 0
    /\ agents[starts[2][1]].depth = 1
    /\ agents[starts[3][1]].depth = 2

\* C3: get_indent(id) is exactly 2 * depth(id) spaces for a registered id and the
\* empty string for an id that is not registered.
C3_IndentWidth ==
    \A id \in QueryIds :
        IF id \in DOMAIN agents
        THEN /\ Len(get_indent(id)) = 2 * agents[id].depth
             /\ \A i \in 1..Len(get_indent(id)) : get_indent(id)[i] = " "
        ELSE get_indent(id) = <<>>

\* An agent at depth 2 indented by four spaces while an unknown id gets none.
C3_Witness ==
    /\ \E id \in DOMAIN agents : agents[id].depth = 2 /\ Len(get_indent(id)) = 4
    /\ \E id \in DOMAIN agents : agents[id].depth = 1 /\ Len(get_indent(id)) = 2
    /\ get_indent(Ghost) = <<>>

\* The tag of a registered agent: single-level without a parentId, two-level
\* "child -> parent" with one.
PrefixShape ==
    \A id \in DOMAIN agents :
        get_agent_prefix(id) =
            IF agents[id].parentId \in {None, ""}
            THEN <<"[Agent #">> \o IntToStr(_get_agent_num(id)) \o <<"]">>
            ELSE <<"[Agent #">> \o IntToStr(_get_agent_num(id)) \o <<" → #">>
                 \o IntToStr(_get_agent_num(agents[id].parentId)) \o <<"]">>

\* Right after registering root A and then child B with parent A.
RootThenChild ==
    /\ Len(starts) = 2
    /\ starts[1][2] = None
    /\ starts[2][1] # starts[1][1]
    /\ starts[2][2] = starts[1][1]

RootThenChildTags ==
    /\ get_agent_prefix(starts[1][1]) = <<"[Agent #", "1", "]">>
    /\ get_agent_prefix(starts[2][1]) = <<"[Agent #", "2", " → #", "1", "]">>
    /\ get_indent(starts[1][1]) = <<>>
    /\ get_indent(starts[2][1]) = <<" ", " ">>

\* C4: the prefix is "[Agent #n]" without a parentId and "[Agent #c → #p]" with
\* one; after registering root A and then child B with parent A, prefix(A) shows
\* 1, prefix(B) shows "2 → 1", indent(A) is empty and indent(B) is two spaces.
C4_PrefixAndScenario == PrefixShape /\ (RootThenChild => RootThenChildTags)

\* The same scenario with a clock that did not run backwards between the two calls.
C4_ScenarioMonotoneClock ==
    (RootThenChild /\ starts[1][3] <= starts[2][3]) => RootThenChildTags

\* C10: queries about an id that is not registered degrade to placeholders:
\* get_agent_prefix gives "[Agent]", get_indent the empty string and
\* _get_agent_num 0, in every tracker state.
C10_UnknownAgentQueries ==
    \A id \in QueryIds \ DOMAIN agents :
        /\ get_agent_prefix(id) = <<"[Agent]">>
        /\ get_indent(id) = <<>>
        /\ _get_agent_num(id) = 0

\* Three agents are registered, and ids that are not (a never-registered id,
\* None, the empty string) still get the placeholders.
C10_Witness ==
    /\ Cardinality(DOMAIN agents) = 3
    /\ \E id \in DOMAIN agents : agents[id].depth > 0
    /\ get_agent_prefix(Ghost) = <<"[Agent]">>
    /\ _get_agent_num(Ghost) = 0
    /\ _get_agent_num(None) = 0
    /\ get_indent("") = <<>>

(***************************************************************************)
(* Properties of format_event, checked under SpecRender.                   *)
(***************************************************************************)
\* C8: format_event changes the tracker only when it renders an
\* agent_loop_started event; rendering an event of any other type, recognised
\* or not, leaves the agent table and the child lists as they were.
C8_OnlyAgentStartMutates ==
    [][ ~TypeIs(arg, "agent_loop_started") =>
            /\ agents' = agents
            /\ agent_keys' = agent_keys
            /\ parent_children' = parent_children ]_vars

\* An agent_loop_completed event of a registered agent was rendered on a tracker
\* of two agents with a child list, and no registration was added.
C8_Witness ==
    /\ pc = "rendered"
    /\ TypeIs(arg, "agent_loop_completed")
    /\ EventGet(arg, "agentId", Null) = Str("a1")
    /\ Len(ret) = 5
    /\ DOMAIN agents = {"a1", "a2"}
    /\ DOMAIN parent_children = {"a1"}
    /\ Len(starts) = MaxPriorStarts

(***************************************************************************)
(* Properties of the receive loop, checked under Spec.                     *)
(***************************************************************************)
\* The blocks printed, in order.
Blocks == SelectSeq(stdout, LAMBDA w : w.kind = "block")

\* The header line of a block: its leading spaces, and the agent prefix, which
\* stands between the "] " that closes the timestamp and the next single space.
RECURSIVE LeadingSpaces(_)
LeadingSpaces(line) ==
    IF line = <<>> \/ line[1] # " " THEN 0 ELSE 1 + LeadingSpaces(Tail(line))

HeaderPrefix(line) ==
    LET i == CHOOSE k \in 1..Len(line) : line[k] = "] " /\ \A h \in 1..(k - 1) : line[h] # "] "
        j == CHOOSE k \in (i + 1)..Len(line) :
                 line[k] = " " /\ \A h \in (i + 1)..(k - 1) : line[h] # " "
    IN  SubSeq(line, i + 1, j - 1)

\* No format_event call before the i-th registered the agent id x.
NotRegisteredBefore(i, x) ==
    \A k \in 1..(i - 1) :
        ~(TypeIs(calls[k][1], "agent_loop_started") /\ EventGet(calls[k][1], "agentId", Null) = x)

\* C5: when an agent_loop_started event for an id that is not registered is
\* rendered and then an agent_loop_step_started event for the same id, the two
\* blocks show the same agent prefix and the same indentation.
C5_StartThenStepSameHeader ==
    \A i \in 1..(Len(calls) - 1) :
        ( /\ TypeIs(calls[i][1], "agent_loop_started")
          /\ TypeIs(calls[i + 1][1], "agent_loop_step_started")
          /\ TruthyValue(EventGet(calls[i][1], "agentId", Null))
          /\ EventGet(calls[i][1], "agentId", Null) = EventGet(calls[i + 1][1], "agentId", Null)
          /\ NotRegisteredBefore(i, EventGet(calls[i][1], "agentId", Null))
          /\ Len(Blocks) >= i + 1 )
        => /\ HeaderPrefix(Blocks[i].lines[1]) = HeaderPrefix(Blocks[i + 1].lines[1])
           /\ LeadingSpaces(Blocks[i].lines[1]) = LeadingSpaces(Blocks[i + 1].lines[1])

\* a1 is registered, then a2 is started under a1 and takes a step: both blocks of
\* a2 show "[Agent #2 → #1]" behind two spaces.
C5_Witness ==
    /\ Len(Blocks) = 3
    /\ calls[1][1] = <<<<"type", Str("agent_loop_started")>>, SentAt,
                       <<"agentId", Str("a1")>>>>
    /\ calls[2][1] = <<<<"type", Str("agent_loop_started")>>, SentAt,
                       <<"agentId", Str("a2")>>, <<"parentAgentId", Str("a1")>>>>
    /\ calls[3][1] = <<<<"type", Str("agent_loop_step_started")>>, SentAt,
                       <<"agentId", Str("a2")>>>>
    /\ HeaderPrefix(Blocks[2].lines[1]) = <<"[Agent #", "2", " → #", "1", "]">>
    /\ HeaderPrefix(Blocks[3].lines[1]) = <<"[Agent #", "2", " → #", "1", "]">>
    /\ LeadingSpaces(Blocks[2].lines[1]) = 2
    /\ LeadingSpaces(Blocks[3].lines[1]) = 2

\* format_event applied in turn to the events of cs, each with its clock
\* readings, starting from an empty tracker: the tracker reached and the blocks
\* returned.
RECURSIVE ReplayCalls(_)
ReplayCalls(cs) ==
    IF cs = <<>> THEN [t |-> <<<<>>, <<>>, <<>>>>, blocks |-> <<>>]
    ELSE CHOOSE after \in
             UNION {{[t |-> <<r.agents, r.agent_keys, r.parent_children>>,
                      blocks |-> IF r.raised THEN before.blocks
                                 ELSE Append(before.blocks, r.block)] :
                        r \in {FormatEvent(cs[Len(cs)][1], before.t[1], before.t[2],
                                           before.t[3], cs[Len(cs)][2], cs[Len(cs)][3])}} :
                    before \in {ReplayCalls(SubSeq(cs, 1, Len(cs) - 1))}} : TRUE

\* The tracker and the blocks printed are those of the format_event calls alone.
RenderedAsReplayed ==
    \E rp \in {ReplayCalls(calls)} :
        /\ rp.t = tracker
        /\ rp.blocks = [i \in 1..Len(Blocks) |-> Blocks[i].lines]

\* The messages the loop has dealt with: all received but one still in hand.
Handled == IF pc = "decode" THEN SubSeq(received, 1, Len(received) - 1) ELSE received

\* The events among them that json.loads returned as objects.
DecodedObjects(ms) == SelectSeq(ms, LAMBDA m : m[1] = "object")

\* C7: a message json.loads rejects is reported with a diagnostic (two lines),
\* leaves the tracker unchanged and does not end the loop: the format_event
\* calls made are those for the decoded events alone, the tracker and the blocks
\* printed are what these calls give on their own, and after a malformed message
\* the loop receives again unless the connection is closed.
C7_ParseErrorSkipped ==
    /\ RenderedAsReplayed
    /\ [i \in 1..Len(calls) |-> calls[i][1]]
          = [i \in 1..Len(DecodedObjects(Handled)) |-> DecodedObjects(Handled)[i][2]]
    /\ Cardinality({i \in 1..Len(stdout) : stdout[i].kind = "diagnostic"})
          = 2 * Cardinality({i \in 1..Len(Handled) : Handled[i][1] = "malformed"})
    /\ \A i \in 1..Len(Handled) :
          Handled[i][1] = "malformed" => (i < Len(received) \/ pc = "recv" \/ exit_status = 0)

\* A start, a malformed message and a step: the loop is still running and the
\* step of the agent is rendered with its number.
C7_Witness ==
    /\ Len(received) = 3
    /\ received[1] = Object(<<<<"type", Str("agent_loop_started")>>, SentAt,
                              <<"agentId", Str("a1")>>>>)
    /\ received[2][1] = "malformed"
    /\ received[3] = Object(<<<<"type", Str("agent_loop_step_started")>>, SentAt,
                              <<"agentId", Str("a1")>>>>)
    /\ pc = "recv"
    /\ exit_status = None
    /\ Len(Blocks) = 2
    /\ HeaderPrefix(Blocks[2].lines[1]) = <<"[Agent #", "1", "]">>
    /\ Cardinality({i \in 1..Len(stdout) : stdout[i].kind = "diagnostic"}) = 2

\* The kinds of output the loop owes for the messages ms, in order: a block and
\* an empty line for a rendered event, two diagnostic lines for a parse error,
\* nothing for a message on which format_event raises.
RECURSIVE OwedKinds(_, _)
OwedKinds(ms, rendersAll) ==
    IF ms = <<>> THEN <<>>
    ELSE (CASE ms[1][1] = "malformed" -> <<"diagnostic", "diagnostic">>
            [] ms[1][1] = "object" /\ (rendersAll \/ ~(TimestampRaises(ms[1][2])
                                                      \/ DurationRaises(ms[1][2])))
                                    -> <<"block", "blank">>
            [] ms[1][1] = "value" /\ rendersAll -> <<"block", "blank">>
            [] OTHER -> <<>>)
         \o OwedKinds(Tail(ms), rendersAll)

\* What stdout holds behind the two banners, but for the closing notice.
LoopOutput ==
    SelectSeq(SubSeq(stdout, 3, Len(stdout)), LAMBDA w : w.kind # "notice")

\* C9: the listener writes exactly one rendered block (and its empty line) per
\* message json.loads decoded, in the order received: behind the banners, stdout
\* holds a block for every decoded message the loop has dealt with and two
\* diagnostic lines for every rejected one, nothing reordered, merged or dropped.
C9_OneBlockPerDecodedMessage ==
    [i \in 1..Len(LoopOutput) |-> LoopOutput[i].kind] = OwedKinds(Handled, TRUE)

\* What the loop does guarantee: one block, followed by an empty line, for every
\* received message that decodes to an event format_event renders without
\* raising, in the order received, the i-th block being the one format_event
\* returned for the i-th such message, all of it flushed before the next message
\* is requested.  A decoded message on which format_event raises gets no block,
\* and the listener exits with status 1.
OneBlockPerRenderedMessage ==
    /\ [i \in 1..Len(LoopOutput) |-> LoopOutput[i].kind] = OwedKinds(Handled, FALSE)
    /\ RenderedAsReplayed
    /\ \A i \in 1..Len(Blocks) : calls[i][1] = DecodedObjects(Handled)[i][2]
    /\ (pc = "recv" /\ received # <<>>) => flushed = Len(stdout)
    /\ pc = "exited" =>
          (exit_status = 1 <=>
              (received # <<>> /\ OwedKinds(<<received[Len(received)]>>, FALSE) = <<>>))

\* Three events were rendered, in the order received, interleaved with nothing.
ThreeBlocksInOrder ==
    /\ pc = "recv"
    /\ Len(received) = 3
    /\ received[1] = Object(<<<<"type", Str("agent_loop_started")>>, SentAt,
                              <<"agentId", Str("a2")>>>>)
    /\ received[2] = Object(<<<<"type", Str("custom_x")>>, SentAt, <<"agentId", Str("a1")>>>>)
    /\ received[3] = Object(<<<<"type", Str("agent_loop_step_started")>>, SentAt,
                              <<"agentId", Str("a2")>>>>)
    /\ Len(Blocks) = 3
    /\ Len(Blocks[1].lines) = 5
    /\ Len(Blocks[2].lines) = 2
    /\ Len(Blocks[3].lines) = 1
    /\ flushed = Len(stdout)

\* A message that decodes but cannot be rendered: a JSON value that is no
\* object, an event whose timestamp field is null, or an event of a type that
\* shows a duration whose duration field is null.
Unrenderable(m) ==
    \/ m[1] = "value"
    \/ /\ m[1] = "object"
       /\ \/ HasKey(m[2], "timestamp") /\ EventGet(m[2], "timestamp", Null) = Null
          \/ /\ TypeIs(m[2], "agent_loop_started")
             /\ HasKey(m[2], "maxDurationMs")
             /\ EventGet(m[2], "maxDurationMs", Null) = Null
          \/ /\ \/ TypeIs(m[2], "model_invocation_completed")
                \/ TypeIs(m[2], "tool_execution_completed")
                \/ TypeIs(m[2], "agent_loop_completed")
             /\ HasKey(m[2], "durationMs")
             /\ EventGet(m[2], "durationMs", Null) = Null

\* C19: only JSON decode errors are recovered inside the receive loop.  A
\* message that decodes but on which format_event raises is the last message
\* the listener receives: the exception leaves the loop, an error is printed to
\* stderr, the listener exits with status 1, and nothing is printed to stdout for
\* that message or after it; a message json.loads rejects never ends the
\* listener, and the listener exits with status 1 in no other case.
C19_OnlyDecodeErrorsRecovered ==
    /\ \A i \in 1..Len(Handled) :
          Unrenderable(Handled[i]) =>
              /\ i = Len(received)
              /\ pc = "exited"
              /\ exit_status = 1
              /\ Len(stderr) = 1
              /\ stderr[1].kind = "error"
              /\ Len(Blocks) = Len(DecodedObjects(SubSeq(received, 1, i - 1)))
              /\ stdout[Len(stdout)].kind # "notice"
    /\ \A i \in 1..Len(Handled) :
          ~Unrenderable(Handled[i]) /\ i = Len(received) =>
              /\ stderr = <<>>
              /\ pc = "exited" => exit_status = 0
              /\ pc \in {"recv", "exited"}

\* A start was rendered, then a completed event with a null duration ended the
\* listener with status 1: one block on stdout, one error on stderr.
C19_Witness ==
    /\ Len(received) = 2
    /\ received[1] = Object(<<<<"type", Str("agent_loop_started")>>, SentAt,
                              <<"agentId", Str("a1")>>>>)
    /\ received[2] = Object(<<<<"type", Str("agent_loop_completed")>>, SentAt,
                              <<"agentId", Str("a1")>>, <<"durationMs", Null>>>>)
    /\ pc = "exited"
    /\ exit_status = 1
    /\ Len(Blocks) = 1
    /\ Len(stderr) = 1

(***************************************************************************)
(* Properties of the rendering of fields, checked under SpecFields.        *)
(***************************************************************************)
\* The number of fields among the first i of e that are neither the
\* discriminant nor the timestamp.
DumpedUpTo(e, i) == Cardinality({k \in 1..i : e[k][1] \notin {"type", "timestamp"}})

Unrecognised(e) == \A t \in EventTypes : ~TypeIs(e, t)

\* C11: for an event whose type is none of the recognised types, the block is
\* one line carrying the type tag, then exactly one line per field other than
\* type and timestamp, in the event's own field order: the k-th such field is
\* on line k + 1 as "  key: value", and no line is left over.
C11_FallbackDump ==
    (pc = "rendered" /\ Unrecognised(arg)) =>
        /\ Len(ret) = 1 + DumpedUpTo(arg, Len(arg))
        /\ ret[1][1] = OKCYAN
        /\ SubSeq(ret[1], Len(ret[1]) - Len(Show(EventType(arg))), Len(ret[1]))
               = Show(EventType(arg)) \o <<ENDC>>
        /\ \A i \in 1..Len(arg) :
              arg[i][1] \notin {"type", "timestamp"} =>
                  ret[1 + DumpedUpTo(arg, i)] = <<"  ", arg[i][1], ": ">> \o Show(arg[i][2])
        /\ \A k \in 2..Len(ret) : ret[k][2] \notin {"type", "timestamp"}

\* {type: "custom_x", timestamp: T, foo: "bar", baz: 3}: a line for the type and
\* one each for foo and baz.
C11_Witness ==
    /\ pc = "rendered"
    /\ arg = <<<<"type", Str("custom_x")>>, <<"timestamp", Num(1000)>>,
               <<"foo", Str("bar")>>, <<"baz", Num(3)>>>>
    /\ ret = <<<<OKCYAN, "[", "0", "0", ":", "0", "0", ":", "0", "1", "] ", "custom_x", ENDC>>,
               <<"  ", "foo", ": ", "bar">>,
               <<"  ", "baz", ": ", "3">>>>

\* line holds the tokens toks next to each other.
Contains(line, toks) ==
    \E i \in 0..(Len(line) - Len(toks)) : SubSeq(line, i + 1, i + Len(toks)) = toks

\* What stands in for an absent field: <<type, key, line, tokens>> says that the
\* block of an event of that type without that key shows the tokens on that line.
Fallbacks ==
    {<<"connected", "clientId", 2, <<"  Client ID: ", "None">>>>,
     <<"ready", "message", 1, <<"] ", "Ready", ENDC>>>>,
     <<"agent_loop_started", "model", 2, <<"  Model: ", OKCYAN, "None", ENDC>>>>,
     <<"agent_loop_started", "providerType", 3, <<"  Provider: ", "None">>>>,
     <<"agent_loop_started", "maxSteps", 4, <<"  Max steps: ", "None">>>>,
     <<"agent_loop_started", "maxDurationMs", 5, <<"  Max duration: ", "0", "ms">>>>,
     <<"agent_loop_step_started", "step", 1, <<"Step ", BOLD, "0", "/">>>>,
     <<"agent_loop_step_started", "maxSteps", 1, <<"/", "0", ENDC>>>>,
     <<"agent_loop_step_started", "progress", 1, <<" (", "0", "%)">>>>,
     <<"model_invocation_started", "model", 2, <<"  Model: ", "None">>>>,
     <<"model_invocation_started", "providerType", 3, <<"  Provider: ", "None">>>>,
     <<"model_invocation_completed", "durationMs", 2, <<"  Duration: ", "0", "ms">>>>,
     <<"model_invocation_completed", "inputTokens", 3, <<"  Tokens: ", "0", " in → ">>>>,
     <<"model_invocation_completed", "outputTokens", 3, <<" in → ", "0", " out">>>>,
     <<"tool_execution_started", "toolName", 1, <<BOLD, "unknown", ENDC>>>>,
     <<"tool_execution_completed", "toolName", 1, <<"Tool ", "unknown", ": ">>>>,
     <<"tool_execution_completed", "ok", 1, <<OKGREEN, "OK", ENDC>>>>,
     <<"tool_execution_completed", "durationMs", 2, <<"  Duration: ", "0", "ms">>>>,
     <<"agent_loop_completed", "durationMs", 2, <<"  Duration: ", "0", "ms">>>>,
     <<"agent_loop_completed", "steps", 3, <<"  Steps: ", "0">>>>,
     <<"agent_loop_completed", "toolCallsExecuted", 4, <<"  Tool calls: ", "0">>>>,
     <<"agent_loop_completed", "terminationReason", 5, <<"  Reason: ", "completion">>>>,
     <<"error", "errorType", 1, <<"ERROR: ", "unknown", ENDC>>>>,
     <<"error", "errorMessage", 2, <<"  ", "No message">>>>}

\* The fields whose line is left out when they are absent.
OmittedWhenAbsent ==
    {<<"connected", "serverInfo">>, <<"model_invocation_started", "estimatedTokens">>,
     <<"tool_execution_started", "requestPreview">>, <<"tool_execution_started", "toolId">>,
     <<"tool_execution_completed", "responsePreview">>}

\* The lines every block of the type has.
FixedLines(t) ==
    CASE t \in {"agent_loop_started", "agent_loop_completed"} -> 5
      [] t \in {"model_invocation_started", "model_invocation_completed"} -> 3
      [] t \in {"connected", "tool_execution_completed", "error"} -> 2
      [] OTHER -> 1

\* The types that show the agent's prefix in their header.
AgentScoped ==
    EventTypes \ {"connected", "ready", "error", "server:shutdown"}

\* C12: for every recognised type and every subset of its optional fields absent
\* (timestamp and agentId among them), format_event returns a block and does not
\* raise; an absent field shows as its fallback value on its line, or its line
\* is left out; an absent timestamp shows as the current instant and an absent
\* agentId as an empty prefix without indentation.
C12_AbsentFieldsFallBack ==
    \A t \in EventTypes :
        (pc \in {"rendered", "raised"} /\ TypeIs(arg, t)) =>
            /\ pc = "rendered"
            /\ Len(ret) >= FixedLines(t)
            /\ \A f \in Fallbacks :
                  (f[1] = t /\ ~HasKey(arg, f[2])) => Contains(ret[f[3]], f[4])
            /\ Len(ret) = FixedLines(t)
                  + Cardinality({o \in OmittedWhenAbsent :
                                   o[1] = t /\ TruthyValue(EventGet(arg, o[2], Null))})
            /\ ~HasKey(arg, "timestamp") =>
                  \E w \in RenderClock :
                      Contains(ret[1], <<"[">> \o format_timestamp(w * 1000) \o <<"] ">>)
            /\ (t \in AgentScoped /\ ~HasKey(arg, "agentId")) =>
                  /\ LeadingSpaces(ret[1]) = 0
                  /\ Contains(ret[1], <<"] ", " ">>)

\* An agent_loop_completed event that carries nothing but its type was rendered
\* with every fallback: "0ms", 0 steps, 0 tool calls, reason "completion".
C12_Witness ==
    /\ pc = "rendered"
    /\ arg = <<<<"type", Str("agent_loop_completed")>>>>
    /\ Len(ret) = 5
    /\ ret[2] = <<"  Duration: ", "0", "ms">>
    /\ ret[3] = <<"  Steps: ", "0">>
    /\ ret[4] = <<"  Tool calls: ", "0">>
    /\ ret[5] = <<"  Reason: ", "completion">>

(***************************************************************************)
(* Further properties of the session, checked under Spec.                  *)
(***************************************************************************)
\* C13: the set of registered agent ids only grows: no step of the session,
\* whatever the message, removes an id from the lineage table, and the record
\* of an id that is not registered again stays as it was.
C13_TableOnlyGrows ==
    [][ /\ DOMAIN agents \subseteq DOMAIN agents'
        /\ \A i \in 1..Len(agent_keys) : agent_keys'[i] = agent_keys[i]
        /\ starts' = starts => agents' = agents ]_vars

\* a1 was started and then completed, and a1 is still in the table.
C13_Witness ==
    /\ Len(calls) = 2
    /\ TypeIs(calls[1][1], "agent_loop_started")
    /\ calls[2][1] = <<<<"type", Str("agent_loop_completed")>>, SentAt,
                       <<"agentId", Str("a1")>>>>
    /\ Len(Blocks) = 2
    /\ "a1" \in DOMAIN agents
    /\ agent_keys = <<"a1">>

(***************************************************************************)
(* Further properties of the tracker, checked under SpecTracker.           *)
(***************************************************************************)
\* No clock reading of a start_agent call was lower than the one before it.
MonotoneClock == \A i \in 1..(Len(starts) - 1) : starts[i][3] <= starts[i + 1][3]

\* C14: when the ids are pairwise distinct and the clock readings never
\* decrease (equal readings allowed), the number of an agent is the 1-based
\* position at which it was registered, at every point of the sequence: so it
\* is the creation order, and it does not change as further agents register.
C14_NumberIsCreationOrder ==
    (DistinctIds /\ MonotoneClock) =>
        \A i \in 1..Len(starts) :
            /\ _get_agent_num(starts[i][1]) = i
            /\ Contains(get_agent_prefix(starts[i][1]), <<"[Agent #">> \o IntToStr(i))

\* Three agents, the first two registered at the same reading: numbers 1, 2, 3.
C14_Witness ==
    /\ DistinctIds
    /\ Len(starts) = 3
    /\ starts[1][3] = starts[2][3]
    /\ starts[2][3] < starts[3][3]
    /\ \A i \in 1..3 : _get_agent_num(starts[i][1]) = i

\* The k-th call named a parent that had no record at that moment.
OrphanCall(k) ==
    /\ Truthy(starts[k][2])
    /\ \A j \in 1..(k - 1) : starts[j][1] # starts[k][2]

KeyPlace(keys, id) == CHOOSE i \in 1..Len(keys) : keys[i] = id

\* The rank of id's startTime in ag: one more than the number of agents that
\* started earlier, agents of equal startTime counted in the order of the keys.
RankIn(ag, keys, id) ==
    1 + Cardinality({a \in DOMAIN ag :
                        \/ ag[a].startTime < ag[id].startTime
                        \/ /\ ag[a].startTime = ag[id].startTime
                           /\ KeyPlace(keys, a) < KeyPlace(keys, id)})

\* C16: start_agent for an id that is already registered replaces its record:
\* parentId as given, depth from the new parent's depth at that moment,
\* startTime the new reading; the number of registered ids stays the same, the
\* records of the other agents (those registered under it among them) are not
\* updated, and the agent's number becomes the rank of its new startTime.
C16_ReRegistrationReplaces ==
    [][ LastStart[1] \in DOMAIN agents =>
          /\ agents'[LastStart[1]] =
                [parentId  |-> LastStart[2],
                 startTime |-> LastStart[3],
                 depth     |-> IF LastStart[2] \in DOMAIN agents
                               THEN agents[LastStart[2]].depth + 1 ELSE 0]
          /\ Cardinality(DOMAIN agents') = Cardinality(DOMAIN agents)
          /\ \A a \in DOMAIN agents \ {LastStart[1]} : agents'[a] = agents[a]
          /\ GetAgentNum(agents', agent_keys', LastStart[1])
                = RankIn(agents', agent_keys', LastStart[1]) ]_vars

\* A root, its child, and the root registered again under its child at a later
\* reading: the root is now at depth 2 and number 2, the child still at depth 1
\* and now number 1.
C16_Witness ==
    /\ Len(starts) = 3
    /\ starts[3][1] = starts[1][1]
    /\ starts[2][1] # starts[1][1]
    /\ starts[1][2] = None
    /\ starts[2][2] = starts[1][1]
    /\ starts[3][2] = starts[2][1]
    /\ starts[1][3] < starts[2][3]
    /\ starts[2][3] < starts[3][3]
    /\ Cardinality(DOMAIN agents) = 2
    /\ agents[starts[1][1]].depth = 2
    /\ agents[starts[2][1]].depth = 1
    /\ _get_agent_num(starts[1][1]) = 2
    /\ _get_agent_num(starts[2][1]) = 1

\* C18: with n registered agents, the numbers of the registered ids are
\* pairwise distinct and are exactly 1..n, also among agents of equal startTime
\* and after re-registrations; no registered agent has number 0.
C18_NumbersArePermutation ==
    \E num \in {[a \in DOMAIN agents |-> _get_agent_num(a)]} :
        /\ {num[a] : a \in DOMAIN agents} = 1..Cardinality(DOMAIN agents)
        /\ \A a, b \in DOMAIN agents : a # b => num[a] # num[b]
        /\ \A a \in DOMAIN agents : num[a] # 0

\* Two agents with the same startTime, one of them registered twice: numbers 1
\* and 2.
C18_Witness ==
    /\ Len(starts) = 3
    /\ ~DistinctIds
    /\ Cardinality(DOMAIN agents) = 2
    /\ \A a, b \in DOMAIN agents : agents[a].startTime = agents[b].startTime
    /\ {_get_agent_num(a) : a \in DOMAIN agents} = {1, 2}

(***************************************************************************)
(* The estimated-token line, checked under SpecFields.                     *)
(***************************************************************************)
\* The block has an estimated-token line.
HasEstimateLine == \E k \in 1..Len(ret) : Contains(ret[k], <<"  Estimated tokens: ~">>)

ModelCallRendered == pc = "rendered" /\ TypeIs(arg, "model_invocation_started")

\* C17: rendering a model_invocation_started event produces an estimated-token
\* line whenever the event carries an estimatedTokens field, whatever its value
\* (0 included), and no such line when the field is absent.
C17_TokenLineWheneverPresent ==
    ModelCallRendered => (HasEstimateLine <=> HasKey(arg, "estimatedTokens"))

\* C17 as the code has it: the line is produced exactly when the event carries
\* an estimatedTokens field with a value Python takes as true (a number other
\* than 0), and then it is the fourth line and shows that value; no such line
\* when the field is absent or its value is 0.
C17_TokenLineWhenTruthy ==
    ModelCallRendered =>
        /\ HasEstimateLine <=> /\ HasKey(arg, "estimatedTokens")
                               /\ TruthyValue(EventGet(arg, "estimatedTokens", Null))
        /\ HasEstimateLine =>
              /\ Len(ret) = 4
              /\ Contains(ret[4], <<"  Estimated tokens: ~">>
                                  \o Show(EventGet(arg, "estimatedTokens", Null)))
        /\ ~HasEstimateLine => Len(ret) = 3

\* An event with estimatedTokens 120 was rendered with the line "~120".
C17_Witness ==
    /\ ModelCallRendered
    /\ EventGet(arg, "estimatedTokens", Null) = Num(120)
    /\ Len(ret) = 4
    /\ Contains(ret[4], <<"  Estimated tokens: ~", "1", "2", "0">>)

(***************************************************************************)
(* Registration, checked under SpecRender.                                 *)
(***************************************************************************)
\* The event carries no agentId, or an empty one.
NoAgentId(e) == ~HasKey(e, "agentId") \/ EventGet(e, "agentId", Null) = Str("")

\* C20: an agent_loop_started event whose agentId is absent or empty registers
\* nothing: the tracker is left unchanged and the "Started" header is rendered
\* with an empty prefix and no indentation; format_event calls start_agent if
\* and only if the event type is agent_loop_started and agentId is non-empty.
C20_RegistersIffStartWithId ==
    [][ pc = "render" =>
          /\ (starts' # starts) <=> (TypeIs(arg, "agent_loop_started") /\ ~NoAgentId(arg))
          /\ (starts' # starts) => /\ Len(starts') = Len(starts) + 1
                                   /\ starts'[Len(starts')][1] = PyId(EventGet(arg, "agentId", Null))
                                   /\ starts'[Len(starts')][1] \in DOMAIN agents'
          /\ (TypeIs(arg, "agent_loop_started") /\ NoAgentId(arg)) =>
                /\ agents' = agents
                /\ agent_keys' = agent_keys
                /\ parent_children' = parent_children
                /\ pc' = "rendered"
                /\ Len(ret') = 5
                /\ LeadingSpaces(ret'[1]) = 0
                /\ HeaderPrefix(ret'[1]) = <<>>
                /\ Contains(ret'[1], <<BOLD, "Started", ENDC>>) ]_vars

\* An agent_loop_started event with an empty agentId and a parent was rendered
\* on a tracker of two agents: five lines, and no registration was added.
C20_Witness ==
    /\ pc = "rendered"
    /\ TypeIs(arg, "agent_loop_started")
    /\ EventGet(arg, "agentId", Null) = Str("")
    /\ HasKey(arg, "parentAgentId")
    /\ Len(ret) = 5
    /\ HeaderPrefix(ret[1]) = <<>>
    /\ DOMAIN agents = {"a1", "a2"}
    /\ Len(starts) = MaxPriorStarts

====
